---- MODULE Spec2Model ----
(***************************************************************************)
(* SmartRoadMonitor: the sender node (IoT_code/Main_Sensor.py) and the     *)
(* gateway node (IoT_code/receiver.py).                                    *)
(*                                                                         *)
(* Text is a sequence of one-character strings, so that split, join,       *)
(* strip, startswith, float() and the f-string formats are computed, not   *)
(* assumed.  A number is an exact fraction <<num, den>> with den > 0; an   *)
(* absent value (Python None) is the empty tuple.                          *)
(***************************************************************************)
EXTENDS Integers, Sequences, FiniteSets, TLC

(***************************************************************************)
(* Bounds of the model.                                                    *)
(***************************************************************************)
MaxCycles == 1
MaxDelivered == 2
MaxSetupArrivals == 1
MaxCount == 3

(***************************************************************************)
(* Text helpers.                                                           *)
(***************************************************************************)
None == <<>>

Digits == <<"0", "1", "2", "3", "4", "5", "6", "7", "8", "9">>

RECURSIVE Pow10(_)
Pow10(n) == IF n = 0 THEN 1 ELSE 10 * Pow10(n - 1)

RECURSIVE IntToStr(_)
\* str(n) for n >= 0
IntToStr(n) ==
    IF n < 10 THEN <<Digits[n + 1]>>
    ELSE IntToStr(n \div 10) \o <<Digits[(n % 10) + 1]>>

RECURSIVE ZeroPad(_, _)
\* the decimal digits of n, left-padded with zeros to width w
ZeroPad(n, w) ==
    IF w = 0 THEN <<>>
    ELSE ZeroPad(n \div 10, w - 1) \o <<Digits[(n % 10) + 1]>>

\* f"{x:.<d>f}" cutting the decimals after the d-th instead of rounding
FormatFixedTruncated(x, d, up) ==
    LET mag  == IF x[1] < 0 THEN -x[1] ELSE x[1]
        n    == (mag * Pow10(d)) \div x[2]
        sign == IF x[1] < 0 THEN <<"-">> ELSE <<>>
    IN  sign \o IntToStr(n \div Pow10(d)) \o <<".">> \o ZeroPad(n % Pow10(d), d)

\* f"{x:.<d>f}" for the fraction x = <<num, den>>.  The value is rounded to d
\* decimals; a value lying exactly half way between two candidates goes up or
\* down as `up` says (the binary float behind the fraction decides it on the
\* device).  A negative value keeps its sign also when it rounds to zero.
FormatFixed(x, d, up) ==
    LET mag    == IF x[1] < 0 THEN -x[1] ELSE x[1]
        scaled == mag * Pow10(d)
        q      == scaled \div x[2]
        r      == scaled % x[2]
        n      == IF 2 * r > x[2] \/ (2 * r = x[2] /\ up) THEN q + 1 ELSE q
        sign   == IF x[1] < 0 THEN <<"-">> ELSE <<>>
    IN  sign \o IntToStr(n \div Pow10(d)) \o <<".">> \o ZeroPad(n % Pow10(d), d)

Whitespace == {" ", "\t", "\r", "\n"}

RECURSIVE FirstSolid(_, _)
\* the first position from i on that holds no whitespace, Len(s) + 1 if none
FirstSolid(s, i) ==
    IF i > Len(s) \/ s[i] \notin Whitespace THEN i ELSE FirstSolid(s, i + 1)

RECURSIVE LastSolid(_, _)
\* the last position up to i that holds no whitespace, 0 if none
LastSolid(s, i) ==
    IF i < 1 \/ s[i] \notin Whitespace THEN i ELSE LastSolid(s, i - 1)

\* str.strip()
Strip(s) == SubSeq(s, FirstSolid(s, 1), LastSolid(s, Len(s)))

\* `p in s` in place of s.startswith(p)
ContainsText(s, p) == \E k \in 1..Len(s) : k + Len(p) - 1 <= Len(s) /\ SubSeq(s, k, k + Len(p) - 1) = p

\* str.startswith(p)
StartsWith(s, p) == Len(s) >= Len(p) /\ SubSeq(s, 1, Len(p)) = p

RECURSIVE SplitAt(_, _, _)
\* the pieces of s from position `start` on, cut at the positions `seps`
SplitAt(s, seps, start) ==
    IF seps = {} THEN <<SubSeq(s, start, Len(s))>>
    ELSE LET m == CHOOSE x \in seps : \A y \in seps : x <= y
         IN  <<SubSeq(s, start, m - 1)>> \o SplitAt(s, seps \ {m}, m + 1)

\* str.split(sep) for a one-character separator: never empty, keeps empty pieces
Split(s, sep) == SplitAt(s, {i \in 1..Len(s) : s[i] = sep}, 1)

RECURSIVE Join(_, _)
\* sep.join(parts)
Join(parts, sep) ==
    IF parts = <<>> THEN <<>>
    ELSE IF Len(parts) = 1 THEN parts[1]
    ELSE parts[1] \o <<sep>> \o Join(Tail(parts), sep)

\* parts[2:-1]: the RSSI field taken into the payload
Slice2ToMinus1(parts) ==
    IF Len(parts) <= 3 THEN <<>> ELSE SubSeq(parts, 3, Len(parts) - 1)

\* parts[2:-2]
Slice2ToMinus2(parts) ==
    IF Len(parts) <= 4 THEN <<>> ELSE SubSeq(parts, 3, Len(parts) - 2)

DigitValue(c) == CHOOSE i \in 0..9 : Digits[i + 1] = c

IsDigit(c) == \E i \in 1..10 : Digits[i] = c

RECURSIVE DigitsToInt(_)
DigitsToInt(s) ==
    IF s = <<>> THEN 0
    ELSE 10 * DigitsToInt(SubSeq(s, 1, Len(s) - 1)) + DigitValue(s[Len(s)])

RECURSIVE Reduce10(_)
\* the same fraction with the trailing decimal zeros removed
Reduce10(x) ==
    IF x[2] > 1 /\ x[1] % 10 = 0 THEN Reduce10(<<x[1] \div 10, x[2] \div 10>>) ELSE x

\* float(tok), for text of digits, sign, point and whitespace: surrounding
\* whitespace is skipped, then [sign] digits [. digits] with at least one digit.
\* The result is <<value>>, or <<>> when float() raises ValueError.
ParseFloat(tok) ==
    LET t     == Strip(tok)
        neg   == t # <<>> /\ Head(t) = "-"
        body  == IF t # <<>> /\ Head(t) \in {"-", "+"} THEN Tail(t) ELSE t
        dots  == {i \in 1..Len(body) : body[i] = "."}
        dot   == IF dots = {} THEN Len(body) + 1 ELSE CHOOSE i \in dots : TRUE
        ip    == SubSeq(body, 1, dot - 1)
        fp    == SubSeq(body, dot + 1, Len(body))
        ok    == /\ Cardinality(dots) <= 1
                 /\ \A i \in 1..Len(ip) : IsDigit(ip[i])
                 /\ \A i \in 1..Len(fp) : IsDigit(fp[i])
                 /\ Len(ip) + Len(fp) >= 1
        mag   == DigitsToInt(ip) * Pow10(Len(fp)) + DigitsToInt(fp)
    IN  IF ok THEN <<Reduce10(<<IF neg THEN -mag ELSE mag, Pow10(Len(fp))>>)>> ELSE <<>>

\* bytes.decode("utf-8") raises UnicodeError on a byte that is not UTF-8
BadByte == "xFF"
DecodeRaises(bytes) == \E i \in 1..Len(bytes) : bytes[i] = BadByte

(***************************************************************************)
(* Exact comparison of fractions.                                          *)
(***************************************************************************)
RatLt(a, b) == a[1] * b[2] < b[1] * a[2]
RatLe(a, b) == a[1] * b[2] <= b[1] * a[2]
RatGt(a, b) == RatLt(b, a)
Zero == <<0, 1>>

(***************************************************************************)
(* Sender: Main_Sensor.py                                                  *)
(***************************************************************************)
VARIABLES
    pc_sender,        \* the step main() executes next
    ambient_temp,     \* DHT22 air temperature, or None
    humidity,         \* DHT22 humidity, or None
    Ambient_Temp,     \* MLX90614 internal temperature, or None
    surrounding_temp, \* MLX90614 object (surface) temperature, or None
    channels,         \* the AS7343 channels [R, G, B, NIR] of the last reading
    VIS_mean,
    NIR_Green_ratio,
    whiteness,
    surface,          \* the surface classification
    message,          \* the CSV payload
    uart_tx,          \* the last command line the sender wrote to its UART
    tx_count,         \* the number of command lines the sender wrote
    cycles,           \* the number of completed loop cycles
    setup_index,      \* the command of initialize_lora that is next or in progress
    s_uart_rx,        \* the bytes waiting in the sender's UART
    s_reply,          \* what the radio module answered to the command in progress
    setup_rejected    \* a command of initialize_lora was not acknowledged with +OK

sender_vars == <<pc_sender, ambient_temp, humidity, Ambient_Temp, surrounding_temp,
                 channels, VIS_mean, NIR_Green_ratio, whiteness, surface, message,
                 uart_tx, tx_count, cycles, setup_index, s_uart_rx, s_reply,
                 setup_rejected>>

\* what one cycle of main() holds
cycle_vars == <<ambient_temp, humidity, Ambient_Temp, surrounding_temp, channels,
                VIS_mean, NIR_Green_ratio, whiteness, surface, message>>

\* What dht_sensor.measure() can do: raise, or give tenths of a degree / percent.
DHTReadings == { <<<<225, 10>>, <<550, 10>>>>, <<<<-15, 10>>, <<803, 10>>>> }

\* Raw 16-bit register values of the MLX90614 (line 110).
MLXRaw == {13600, 13657, 13658, 14900}

\* Channel counts of the AS7343 (non-negative integers).
SpectralReadings ==
    { [R |-> 2, G |-> 4, B |-> 0, NIR |-> 4],
      [R |-> 3, G |-> 4, B |-> 0, NIR |-> 4],
      [R |-> 6, G |-> 9, B |-> 0, NIR |-> 4],
      [R |-> 0, G |-> 5, B |-> 1, NIR |-> 4],
      [R |-> 0, G |-> 0, B |-> 0, NIR |-> 0],
      [R |-> 1, G |-> 1, B |-> 1, NIR |-> 9] }

W_THRESHOLD == <<12, 10>>
R_THRESHOLD == <<8, 10>>

AT == <<"A", "T">>
AT_ADDRESS_1 == <<"A", "T", "+", "A", "D", "D", "R", "E", "S", "S", "=", "1">>
AT_ADDRESS_2 == <<"A", "T", "+", "A", "D", "D", "R", "E", "S", "S", "=", "2">>
AT_NETWORKID == <<"A", "T", "+", "N", "E", "T", "W", "O", "R", "K", "I", "D", "=", "5">>
AT_BAND == <<"A", "T", "+", "B", "A", "N", "D", "=", "9", "1", "5", "0", "0", "0", "0", "0", "0">>
AT_SEND_2 == <<"A", "T", "+", "S", "E", "N", "D", "=", "2", ",">>
CRLF == <<"\r", "\n">>

\* the commands of initialize_lora, in the order written
SenderSetup == <<AT, AT_ADDRESS_1, AT_NETWORKID, AT_BAND>>
GatewaySetup == <<AT, AT_ADDRESS_2, AT_NETWORKID, AT_BAND>>

\* read_temp: the register converted to Celsius, raw * 0.02 - 273.15, or None
\* when the bus read raises OSError.
read_temp(oserror, raw) == IF oserror THEN None ELSE <<2 * raw - 27315, 100>>

\* compute_features dividing by G and by NIR themselves
compute_features_NoOffset(ch) ==
    [VIS_mean        |-> <<ch.R + ch.G + ch.B, 3>>,
     NIR_Green_ratio |-> <<ch.NIR, ch.G>>,
     whiteness       |-> <<ch.R + ch.G + ch.B, ch.NIR>>]

\* compute_features, lines 134-140: each quotient as <<dividend, divisor>>
compute_features(ch) ==
    [VIS_mean        |-> <<ch.R + ch.G + ch.B, 3>>,
     NIR_Green_ratio |-> <<ch.NIR, ch.G + 1>>,
     whiteness       |-> <<ch.R + ch.G + ch.B, ch.NIR + 1>>]

ClassifyIceAtThreshold(t, w, r) ==
    IF t # None /\ RatLe(t, Zero) /\ RatLe(W_THRESHOLD, w) /\ RatLt(r, R_THRESHOLD)
    THEN "ICE DETECTED"
    ELSE IF t # None /\ RatLe(t, Zero) /\ RatLt(r, R_THRESHOLD)
    THEN "POSSIBLE BLACK ICE"
    ELSE "NORMAL"

\* The surface classification of main(), lines 276-288.
Classify(t, w, r) ==
    IF t # None /\ RatLe(t, Zero) /\ RatGt(w, W_THRESHOLD) /\ RatLt(r, R_THRESHOLD)
    THEN "ICE DETECTED"
    ELSE IF t # None /\ RatLe(t, Zero) /\ RatLt(r, R_THRESHOLD)
    THEN "POSSIBLE BLACK ICE"
    ELSE "NORMAL"

\* The CSV payload of main(), lines 302-309, for six present values.
\* x lies half way between two values of d decimals
IsTie(x, d) == LET mag == IF x[1] < 0 THEN -x[1] ELSE x[1]
               IN  2 * ((mag * Pow10(d)) % x[2]) = x[2]

\* the directions a value may be rounded in
TieDirections(x, d) == IF IsTie(x, d) THEN BOOLEAN ELSE {FALSE}

\* up[i] is the direction field i takes when its value is a rounding tie.
FormatMessage(a, h, s, v, n, w, up) ==
    FormatFixed(a, 1, up[1]) \o <<",">> \o FormatFixed(h, 1, up[2]) \o <<",">> \o
    FormatFixed(s, 1, up[3]) \o <<",">> \o FormatFixed(v, 1, up[4]) \o <<",">> \o
    FormatFixed(n, 2, up[5]) \o <<",">> \o FormatFixed(w, 2, up[6])

\* send_lora_message counting the line end into the length
SendCommandLineCountsLineEnd(data) ==
    AT_SEND_2 \o IntToStr(Len(data) + Len(CRLF)) \o <<",">> \o data

\* send_lora_message: the command line handed to send_command
SendCommandLine(data) == AT_SEND_2 \o IntToStr(Len(data)) \o <<",">> \o data

\* uart.any() answering that nothing waits, whatever does
uart_any_Never(buffer) == FALSE

\* uart.any(): bytes wait in the UART
uart_any(buffer) == buffer # <<>>

\* What the radio module answers to a command: +OK, or +ERR=<n>.
OK_REPLY == <<"+", "O", "K">>
ERR_REPLY == <<"+", "E", "R", "R", "=", "1">>
ModuleReplies == {OK_REPLY, ERR_REPLY}

SenderInit ==
    /\ pc_sender = "initialize_lora"
    /\ ambient_temp = None
    /\ humidity = None
    /\ Ambient_Temp = None
    /\ surrounding_temp = None
    /\ channels = [R |-> 0, G |-> 0, B |-> 0, NIR |-> 0]
    /\ VIS_mean = None
    /\ NIR_Green_ratio = None
    /\ whiteness = None
    /\ surface = ""
    /\ message = <<>>
    /\ uart_tx = <<>>
    /\ tx_count = 0
    /\ cycles = 0
    /\ setup_index = 1
    /\ s_uart_rx = <<>>
    /\ s_reply = <<>>
    /\ setup_rejected = FALSE

\* initialize_lora, lines 184-187: the next of its four commands goes to
\* send_command, which writes it with CR LF (line 170)
S_InitializeLora ==
    /\ pc_sender = "initialize_lora"
    /\ uart_tx' = SenderSetup[setup_index] \o CRLF
    /\ tx_count' = tx_count + 1
    /\ s_reply' = <<>>
    /\ pc_sender' = "settle"
    /\ UNCHANGED <<cycle_vars, cycles, setup_index, s_uart_rx, setup_rejected>>

\* send_command, line 171: utime.sleep(0.5)
S_Settle ==
    /\ pc_sender = "settle"
    /\ pc_sender' = "drain"
    /\ UNCHANGED <<cycle_vars, uart_tx, tx_count, cycles, setup_index, s_uart_rx,
                   s_reply, setup_rejected>>

\* The radio module answers the command in progress, during the wait or while
\* the drain loop runs; it may also never answer.
S_ModuleReply ==
    /\ pc_sender \in {"settle", "drain"}
    /\ s_reply = <<>>
    /\ \E r \in ModuleReplies :
          /\ s_uart_rx' = s_uart_rx \o r \o CRLF
          /\ s_reply' = r
    /\ UNCHANGED <<pc_sender, cycle_vars, uart_tx, tx_count, cycles, setup_index,
                   setup_rejected>>

\* send_command, lines 173-177: uart.any() is true, uart.read() takes all the
\* waiting bytes and they are printed
S_DrainRead ==
    /\ pc_sender = "drain"
    /\ uart_any(s_uart_rx)
    /\ s_uart_rx' = <<>>
    /\ UNCHANGED <<pc_sender, cycle_vars, uart_tx, tx_count, cycles, setup_index,
                   s_reply, setup_rejected>>

\* send_command, line 173: uart.any() is false, the loop ends and send_command
\* returns to initialize_lora (lines 184-188) or to main() (line 314).  Nothing
\* looks at what the module answered.
S_DrainEnd ==
    /\ pc_sender = "drain"
    /\ ~uart_any(s_uart_rx)
    /\ s_reply' = <<>>
    /\ IF setup_index <= Len(SenderSetup)
       THEN /\ setup_index' = setup_index + 1
            /\ setup_rejected' = (setup_rejected \/ s_reply # OK_REPLY)
            /\ pc_sender' = IF setup_index = Len(SenderSetup) THEN "read_dht"
                                                              ELSE "initialize_lora"
       ELSE /\ pc_sender' = "sleep"
            /\ UNCHANGED <<setup_index, setup_rejected>>
    /\ UNCHANGED <<cycle_vars, uart_tx, tx_count, cycles, s_uart_rx>>

\* lines 255-261: the DHT22 read; any exception leaves both values None
S_ReadDHT ==
    /\ pc_sender = "read_dht"
    /\ \/ \E r \in DHTReadings : ambient_temp' = r[1] /\ humidity' = r[2]
       \/ ambient_temp' = None /\ humidity' = None
    /\ pc_sender' = "read_mlx"
    /\ UNCHANGED <<Ambient_Temp, surrounding_temp, channels, VIS_mean, NIR_Green_ratio,
                   whiteness, surface, message, uart_tx, tx_count, cycles>>
    /\ UNCHANGED <<setup_index, s_uart_rx, s_reply, setup_rejected>>

\* lines 264-265: the two MLX90614 registers, each read by read_temp
S_ReadMLX ==
    /\ pc_sender = "read_mlx"
    /\ \E ta \in {14900}, tobj \in MLXRaw, ta_err \in BOOLEAN, tobj_err \in BOOLEAN :
          /\ Ambient_Temp' = read_temp(ta_err, ta)
          /\ surrounding_temp' = read_temp(tobj_err, tobj)
    /\ pc_sender' = "compute_features"
    /\ UNCHANGED <<ambient_temp, humidity, channels, VIS_mean, NIR_Green_ratio,
                   whiteness, surface, message, uart_tx, tx_count, cycles>>
    /\ UNCHANGED <<setup_index, s_uart_rx, s_reply, setup_rejected>>

\* lines 268-273: the spectral reading and compute_features
S_ComputeFeatures ==
    /\ pc_sender = "compute_features"
    /\ \E ch \in SpectralReadings :
          /\ channels' = ch
          /\ VIS_mean' = compute_features(ch).VIS_mean
          /\ NIR_Green_ratio' = compute_features(ch).NIR_Green_ratio
          /\ whiteness' = compute_features(ch).whiteness
    /\ pc_sender' = "classify"
    /\ UNCHANGED <<ambient_temp, humidity, Ambient_Temp, surrounding_temp, surface,
                   message, uart_tx, tx_count, cycles>>
    /\ UNCHANGED <<setup_index, s_uart_rx, s_reply, setup_rejected>>

\* lines 276-288
S_Classify ==
    /\ pc_sender = "classify"
    /\ surface' = Classify(surrounding_temp, whiteness, NIR_Green_ratio)
    /\ pc_sender' = "report"
    /\ UNCHANGED <<ambient_temp, humidity, Ambient_Temp, surrounding_temp, channels,
                   VIS_mean, NIR_Green_ratio, whiteness, message, uart_tx, tx_count,
                   cycles>>
    /\ UNCHANGED <<setup_index, s_uart_rx, s_reply, setup_rejected>>

\* lines 291-299: the live-data report formats ambient_temp, humidity,
\* surrounding_temp and Ambient_Temp with ":.2f".  Formatting None raises, nothing
\* in main() catches it, and the module-level handler catches KeyboardInterrupt
\* only: the program ends.
S_Report ==
    /\ pc_sender = "report"
    /\ pc_sender' = IF None \in {ambient_temp, humidity, surrounding_temp, Ambient_Temp}
                    THEN "crashed"
                    ELSE "frame"
    /\ UNCHANGED <<ambient_temp, humidity, Ambient_Temp, surrounding_temp, channels,
                   VIS_mean, NIR_Green_ratio, whiteness, surface, message, uart_tx,
                   tx_count, cycles>>
    /\ UNCHANGED <<setup_index, s_uart_rx, s_reply, setup_rejected>>

\* lines 302-309
S_Frame ==
    /\ pc_sender = "frame"
    /\ \E u1 \in TieDirections(ambient_temp, 1), u2 \in TieDirections(humidity, 1),
          u3 \in TieDirections(surrounding_temp, 1), u4 \in TieDirections(VIS_mean, 1),
          u5 \in TieDirections(NIR_Green_ratio, 2), u6 \in TieDirections(whiteness, 2) :
          LET up == <<u1, u2, u3, u4, u5, u6>> IN
          message' = FormatMessage(ambient_temp, humidity, surrounding_temp,
                                   VIS_mean, NIR_Green_ratio, whiteness, up)
    /\ pc_sender' = "send"
    /\ UNCHANGED <<ambient_temp, humidity, Ambient_Temp, surrounding_temp, channels,
                   VIS_mean, NIR_Green_ratio, whiteness, surface, uart_tx, tx_count,
                   cycles>>
    /\ UNCHANGED <<setup_index, s_uart_rx, s_reply, setup_rejected>>

\* main() calling send_lora_message a second time for the same message
S_SendTwice ==
    /\ pc_sender = "send"
    /\ uart_tx' = SendCommandLine(message) \o CRLF
    /\ tx_count' = tx_count + 2
    /\ s_reply' = <<>>
    /\ pc_sender' = "settle"
    /\ UNCHANGED <<cycle_vars, cycles, setup_index, s_uart_rx, setup_rejected>>

\* line 312: send_lora_message builds the command and send_command writes it
\* with CR LF (line 170)
S_Send ==
    /\ pc_sender = "send"
    /\ uart_tx' = SendCommandLine(message) \o CRLF
    /\ tx_count' = tx_count + 1
    /\ s_reply' = <<>>
    /\ pc_sender' = "settle"
    /\ UNCHANGED <<cycle_vars, cycles, setup_index, s_uart_rx, setup_rejected>>

\* line 314, then the next iteration of `while True`
S_Sleep ==
    /\ pc_sender = "sleep"
    /\ cycles < MaxCycles
    /\ cycles' = cycles + 1
    /\ pc_sender' = "read_dht"
    /\ UNCHANGED <<ambient_temp, humidity, Ambient_Temp, surrounding_temp, channels,
                   VIS_mean, NIR_Green_ratio, whiteness, surface, message, uart_tx,
                   tx_count>>
    /\ UNCHANGED <<setup_index, s_uart_rx, s_reply, setup_rejected>>

SenderNext ==
    \/ S_InitializeLora
    \/ S_Settle
    \/ S_ModuleReply
    \/ S_DrainRead
    \/ S_DrainEnd
    \/ S_ReadDHT
    \/ S_ReadMLX
    \/ S_ComputeFeatures
    \/ S_Classify
    \/ S_Report
    \/ S_Frame
    \/ S_Send
    \/ S_Sleep

(***************************************************************************)
(* Gateway: receiver.py                                                    *)
(***************************************************************************)
VARIABLES
    pc_gateway,     \* the step main() executes next
    wlan_connected, \* wlan.isconnected()
    max_wait,       \* the countdown of connect_to_wifi
    uart_rx,        \* the bytes waiting in the gateway's UART
    rx_origin,      \* per waiting line: <<sample>> when the sender framed it, else <<>>
    msg,            \* the bytes of the last uart.read() of the receive loop
    msg_origin,     \* rx_origin of those bytes
    printed,        \* what the handling of msg reported
    sensor_data,    \* <<record>> when msg was decoded into a record, else <<>>
    frame_posts,    \* the HTTP POSTs issued while msg was handled
    api_result,     \* what urequests.post did for msg, "" when it was not called
    failed_posts,   \* the HTTP POSTs that ended in a transport failure
    dropped,        \* the reads of the receive loop that built no record
    post_count,     \* all HTTP POSTs issued
    records,        \* all records built
    delivered,      \* the lines the radio module has delivered
    gw_tx_count,    \* the command lines the gateway wrote to its UART
    gw_uart_tx,     \* the last command line the gateway wrote to its UART
    gw_setup_index, \* the command of initialize_lora that is next or in progress
    gw_reply,       \* what the radio module answered to the command in progress
    wifi_checks,    \* the connection checks the wait loop of connect_to_wifi made
    rx_pending,     \* the rest of a line of which the UART holds the beginning only
    carry,          \* the bytes the receive loop read that no line end has followed
    valid_read      \* the complete lines the receive loop read that were valid frames

gateway_vars == <<pc_gateway, wlan_connected, max_wait, uart_rx, rx_origin, msg,
                  msg_origin, printed, sensor_data, frame_posts, api_result,
                  failed_posts, dropped, post_count, records, delivered, gw_tx_count,
                  gw_uart_tx, gw_setup_index, gw_reply,
                  wifi_checks, rx_pending, carry, valid_read>>

\* what the handling of one read leaves behind
read_vars == <<msg, msg_origin, printed, sensor_data, frame_posts, api_result,
               failed_posts, dropped, post_count, records, carry, valid_read>>

\* the radio channel as the radio module fills it
radio_vars == <<uart_rx, rx_origin, rx_pending, delivered>>

\* the state of initialize_lora
setup_vars == <<gw_tx_count, gw_uart_tx, gw_setup_index, gw_reply>>

\* the state of connect_to_wifi
wifi_vars == <<wlan_connected, max_wait, wifi_checks>>

RCV_PREFIX == <<"+", "R", "C", "V", "=">>

DeviceID == 16

MaxWait == 20

\* What urequests.post can do: answer with a status code, or raise OSError
\* (timeout, connection refused, name resolution failure).
StatusCodes == {"200", "500"}
TransportFailures == {"ETIMEDOUT", "ECONNREFUSED", "EAI_FAIL"}
PostResults == StatusCodes \cup TransportFailures

\* the record with the two temperatures taken from each other's position
BuildRecordTemperaturesSwapped(f) ==
    [DeviceID        |-> DeviceID,
     AirTemp         |-> f[3],
     Humidity        |-> f[2],
     SurfaceTemp     |-> f[1],
     VIS_Mean        |-> f[4],
     NIR_Green_Ratio |-> f[5],
     WhitenessIndex  |-> f[6]]

\* lines 213-221: the record handed to send_data_to_api; f[i] is float(values[i])
BuildRecord(f) ==
    [DeviceID        |-> DeviceID,
     AirTemp         |-> f[1],
     Humidity        |-> f[2],
     SurfaceTemp     |-> f[3],
     VIS_Mean        |-> f[4],
     NIR_Green_Ratio |-> f[5],
     WhitenessIndex  |-> f[6]]

\* send_data_to_api catching everything but a timeout
send_data_to_api_TimeoutEscapes(data, result) ==
    [attempts |-> 1,
     escaped  |-> result = "ETIMEDOUT",
     printed  |-> IF result \in TransportFailures THEN "ERROR sending to API"
                  ELSE "API Sent"]

\* send_data_to_api posting a second time after a transport failure
send_data_to_api_Retry(data, result) ==
    [attempts |-> IF result \in TransportFailures THEN 2 ELSE 1,
     escaped  |-> FALSE,
     printed  |-> IF result \in TransportFailures THEN "ERROR sending to API"
                  ELSE "API Sent"]

\* send_data_to_api: one urequests.post; whatever it raises is caught and printed.
\* attempts: the POSTs made; escaped: whether an exception leaves the function.
send_data_to_api(data, result) ==
    [attempts |-> 1,
     escaped  |-> FALSE,
     printed  |-> IF result \in TransportFailures THEN "ERROR sending to API"
                  ELSE "API Sent"]

\* `len(values) >= 6` in place of `len(values) == 6`
HasSixValuesOrMore(values) == Len(values) >= 6

\* payload.split(",") has the expected number of values, line 196
HasSixValues(values) == Len(values) = 6

\* Lines 181-221 for the bytes of one uart.read(): the record built from them
\* (data), else the exception raised (raised) or the line printed (printed).
DecodeMessage(bytes) ==
    IF DecodeRaises(bytes)
    THEN [raised |-> "UnicodeError", printed |-> "", data |-> <<>>]
    ELSE
    LET msg_str == Strip(bytes) IN
    IF ~StartsWith(msg_str, RCV_PREFIX)
    THEN [raised |-> "", printed |-> "", data |-> <<>>]
    ELSE
    LET parts   == Split(msg_str, ",")
        payload == Join(Slice2ToMinus2(parts), ",")
        values  == Split(payload, ",")
    IN
    IF ~HasSixValues(values)
    THEN [raised |-> "", printed |-> "Malformed LoRa packet", data |-> <<>>]
    ELSE
    LET floats == [i \in 1..6 |-> ParseFloat(values[i])] IN
    IF \E i \in 1..6 : floats[i] = <<>>
    THEN [raised |-> "ValueError", printed |-> "", data |-> <<>>]
    ELSE [raised |-> "", printed |-> "",
          data |-> <<BuildRecord([i \in 1..6 |-> floats[i][1]])>>]

\* a handler with the UnicodeError clause only
ExceptClausesUnicodeOnly(exc) ==
    IF exc = "UnicodeError" THEN "Unreadable LoRa bytes received" ELSE "uncaught"

\* a handler with the ValueError clause only, UnicodeError not being taken by it
ExceptClausesValueOnly(exc) ==
    IF exc = "ValueError" THEN "Error converting data to float" ELSE "uncaught"

\* The except clauses of lines 227-232, tried in order: what is printed for an
\* exception raised inside the try, "uncaught" if no clause takes it.
\* UnicodeError is a subclass of ValueError, so the first clause takes it.
ExceptClauses(exc) ==
    IF exc \in {"ValueError", "UnicodeError"} THEN "Error converting data to float"
    ELSE IF exc = "UnicodeError" THEN "Unreadable LoRa bytes received"
    ELSE "General error"

\* Line 223 inside the try of lines 180-232: the record goes to send_data_to_api;
\* an exception leaving it is one more exception raised inside the try.
Forward(data, result) ==
    LET api == send_data_to_api(data, result) IN
        [printed |-> IF api.escaped THEN ExceptClauses("OSError") ELSE api.printed,
         posts   |-> api.attempts]

\* Lines the radio module can put on the gateway's UART that no sender framed.
NoiseLines ==
    { <<"+", "O", "K">>,
      <<"+", "R", "C", "V", "=", "2", ",", "8", ",", "2", "2", ".", "5", ",", "5", "5", ".", "0", ",", "9", ",", "9">>,
      <<"+", "R", "C", "V", "=", "2", ",", "8", ",", "a", "b", "c", ",", "5", "5", ".", "0", ",", "-", "1", ".", "0", ",", "4", "0", ".", "0", ",", "0", ".", "5", ",", "1", ".", "0", ",", "9", ",", "9">>,
      <<"+", "R", "C", "V", "=", "1", ",", "1", ",", BadByte, ",", "-", "9", ",", "9">>,
      <<" ", "+", "R", "C", "V", "=", "1", ",", "2", "9", ",", "2", "2", ".", "5", ",", "5", "5", ".", "0", ",", "-", "1", ".", "0", ",", "4", "0", ".", "0", ",", "0", ".", "5", "0", ",", "1", ".", "0", "0", ",", "-", "4", "0", ",", "9">>,
      <<"+", "R", "C", "V", "=", "7", ",", "9", "9", ",", "1", ".", "0", ",", "2", ".", "0", ",", "3", ".", "0", ",", "4", ".", "0", ",", "5", ".", "0", ",", "6", ".", "0", ",", "-", "1", "2", "0", ",", "-", "3">>,
      <<"+", "R", "C", "V", "=", "1", ",", "1", "1", ",", "1", ",", "2", ",", "3", ",", "4", ",", "5", ",", ",", "-", "9", ",", "9">> }

\* The six values of one sender cycle, as main() of Main_Sensor.py holds them.
SenderSample(dht, raw, ch) ==
    [ambient_temp     |-> dht[1],
     humidity         |-> dht[2],
     surrounding_temp |-> read_temp(FALSE, raw),
     VIS_mean         |-> compute_features(ch).VIS_mean,
     NIR_Green_ratio  |-> compute_features(ch).NIR_Green_ratio,
     whiteness        |-> compute_features(ch).whiteness]

\* Two cycles of the sender: one whose surface temperature, -1.15, lies half way
\* between two values of one decimal, and one whose surface temperature, -0.01,
\* is written "-0.0".
FrameSamples ==
    { SenderSample(<<<<225, 10>>, <<550, 10>>>>, 13600, [R |-> 0, G |-> 5, B |-> 1, NIR |-> 4]),
      SenderSample(<<<<-15, 10>>, <<803, 10>>>>, 13657, [R |-> 6, G |-> 9, B |-> 0, NIR |-> 4]) }

\* What the radio module puts around a payload: the address of the sender, the
\* signal strength and the signal-to-noise ratio.
Headers ==
    { [src |-> <<"1">>, rssi |-> <<"-", "4", "0">>, snr |-> <<"9">>],
      [src |-> <<"1">>, rssi |-> <<"-", "1", "2", "0">>, snr |-> <<"-", "3">>] }

\* The receive frame of the radio module: +RCV=<addr>,<len>,<payload>,<RSSI>,<SNR>
RcvFrame(h, payload) ==
    RCV_PREFIX \o h.src \o <<",">> \o IntToStr(Len(payload)) \o <<",">> \o payload
               \o <<",">> \o h.rssi \o <<",">> \o h.snr

GatewayInit ==
    /\ pc_gateway = "initialize_lora"
    /\ wlan_connected = FALSE
    /\ max_wait = 0
    /\ uart_rx = <<>>
    /\ rx_origin = <<>>
    /\ msg = <<>>
    /\ msg_origin = <<>>
    /\ printed = ""
    /\ sensor_data = <<>>
    /\ frame_posts = 0
    /\ api_result = ""
    /\ failed_posts = 0
    /\ dropped = 0
    /\ post_count = 0
    /\ records = 0
    /\ delivered = 0
    /\ gw_tx_count = 0
    /\ gw_uart_tx = <<>>
    /\ gw_setup_index = 1
    /\ gw_reply = <<>>
    /\ wifi_checks = 0
    /\ rx_pending = <<>>
    /\ carry = <<>>
    /\ valid_read = 0

\* initialize_lora, lines 67-70: the next of its four commands goes to
\* send_command, which writes it with CR LF (line 51)
G_InitializeLora ==
    /\ pc_gateway = "initialize_lora"
    /\ gw_uart_tx' = GatewaySetup[gw_setup_index] \o CRLF
    /\ gw_tx_count' = gw_tx_count + 1
    /\ gw_reply' = <<>>
    /\ pc_gateway' = "settle"
    /\ UNCHANGED <<gw_setup_index, wifi_vars, radio_vars, read_vars>>

\* send_command, line 52: utime.sleep(0.5)
G_Settle ==
    /\ pc_gateway = "settle"
    /\ pc_gateway' = "drain"
    /\ UNCHANGED <<setup_vars, wifi_vars, radio_vars, read_vars>>

\* The radio module answers the command in progress, during the wait or while
\* the drain loop runs; it may also never answer.
G_ModuleReply ==
    /\ pc_gateway \in {"settle", "drain"}
    /\ gw_reply = <<>>
    /\ rx_pending = <<>>
    /\ \E r \in ModuleReplies :
          /\ uart_rx' = uart_rx \o r \o CRLF
          /\ gw_reply' = r
    /\ rx_origin' = Append(rx_origin, <<>>)
    /\ UNCHANGED <<pc_gateway, gw_tx_count, gw_uart_tx, gw_setup_index, wifi_vars,
                   rx_pending, delivered, read_vars>>

\* send_command, lines 55-56: uart.any() is true, uart.read() takes all the
\* waiting bytes and they are discarded
G_DrainRead ==
    /\ pc_gateway = "drain"
    /\ uart_any(uart_rx)
    /\ uart_rx' = <<>>
    /\ rx_origin' = <<>>
    /\ UNCHANGED <<pc_gateway, setup_vars, wifi_vars, rx_pending, delivered, read_vars>>

\* send_command, line 55: uart.any() is false, the loop ends and send_command
\* returns to initialize_lora (lines 67-71), which returns to main() after its
\* last command.  Nothing looks at what the module answered.
G_DrainEnd ==
    /\ pc_gateway = "drain"
    /\ ~uart_any(uart_rx)
    /\ gw_reply' = <<>>
    /\ gw_setup_index' = gw_setup_index + 1
    /\ pc_gateway' = IF gw_setup_index = Len(GatewaySetup) THEN "connect_to_wifi"
                                                           ELSE "initialize_lora"
    /\ UNCHANGED <<gw_tx_count, gw_uart_tx, wifi_vars, radio_vars, read_vars>>

\* main() entering receive_messages although connect_to_wifi failed
AfterAttachDegraded(connected) == "receive"

\* connect_to_wifi, lines 99-104, and main(), lines 247-250: with the network
\* attached connect_to_wifi returns and main() calls receive_messages; else it
\* raises RuntimeError, which main() catches and ends.
AfterAttach(connected) == IF connected THEN "receive" ELSE "stopped"

\* connect_to_wifi, lines 82-90
G_ConnectToWifi ==
    /\ pc_gateway = "connect_to_wifi"
    /\ IF wlan_connected
       THEN pc_gateway' = AfterAttach(TRUE) /\ UNCHANGED max_wait
       ELSE pc_gateway' = "wifi_wait" /\ max_wait' = MaxWait
    /\ UNCHANGED <<wlan_connected, wifi_checks, setup_vars, radio_vars, read_vars>>

\* connect_to_wifi, lines 91-97: one test of the while loop and, when it holds,
\* the connection check of line 92, then the break or the wait of one second
G_WifiWait ==
    /\ pc_gateway = "wifi_wait"
    /\ IF max_wait > 0
       THEN /\ wifi_checks' = wifi_checks + 1
            /\ IF wlan_connected
               THEN pc_gateway' = "wifi_check" /\ UNCHANGED max_wait
               ELSE pc_gateway' = "wifi_wait" /\ max_wait' = max_wait - 1
       ELSE pc_gateway' = "wifi_check" /\ UNCHANGED <<max_wait, wifi_checks>>
    /\ UNCHANGED <<wlan_connected, setup_vars, radio_vars, read_vars>>

\* connect_to_wifi, lines 99-104.  The locals of connect_to_wifi end with the call.
G_WifiCheck ==
    /\ pc_gateway = "wifi_check"
    /\ pc_gateway' = AfterAttach(wlan_connected)
    /\ max_wait' = 0
    /\ wifi_checks' = 0
    /\ UNCHANGED <<wlan_connected, setup_vars, radio_vars, read_vars>>

\* the access point accepts the station, before or while connect_to_wifi runs
WifiAssociates ==
    /\ pc_gateway \in {"connect_to_wifi", "wifi_wait", "wifi_check"}
    /\ ~wlan_connected
    /\ wlan_connected' = TRUE
    /\ UNCHANGED <<pc_gateway, max_wait, wifi_checks, setup_vars, radio_vars, read_vars>>

\* the bytes of a text that follow its last line feed
UnterminatedTail(bytes) == LET pieces == Split(bytes, "\n") IN pieces[Len(pieces)]

(***************************************************************************)
(* What the radio module delivered, line by line: the measure the reads of *)
(* the receive loop are compared with.                                     *)
(***************************************************************************)
\* the text begins with "+RCV="
HasRcvPrefix(s) ==
    Len(s) >= 5 /\ s[1] = "+" /\ s[2] = "R" /\ s[3] = "C" /\ s[4] = "V" /\ s[5] = "="

\* the number of commas of a text
CommaCount(s) == Cardinality({i \in 1..Len(s) : s[i] = ","})

\* the k-th comma-separated token of the stripped text of b
Token(b, k) == Split(Strip(b), ",")[k]

\* b is readable text with the receive-frame prefix and ten comma-separated
\* tokens of which the third to the eighth are real numbers
WellFormedFrame(b) ==
    /\ ~DecodeRaises(b)
    /\ HasRcvPrefix(Strip(b))
    /\ CommaCount(Strip(b)) = 9
    /\ \A k \in 3..8 : ParseFloat(Token(b, k)) # <<>>

\* the lines of a text that a line feed ends
CompleteLines(b) == LET pieces == Split(b, "\n") IN SubSeq(pieces, 1, Len(pieces) - 1)

\* how many of the complete lines of a text are well-formed receive frames
ValidLineCount(b) ==
    Cardinality({i \in 1..Len(CompleteLines(b)) : WellFormedFrame(CompleteLines(b)[i])})

\* receive_messages, one iteration with uart.any() true: read all waiting bytes,
\* handle them, POST the record if there is one
G_Receive ==
    /\ pc_gateway = "receive"
    /\ uart_any(uart_rx)
    /\ LET d == DecodeMessage(uart_rx) IN
          IF d.data = <<>>
          THEN LET report == IF d.raised = "" THEN d.printed ELSE ExceptClauses(d.raised)
               IN  /\ printed' = report
                   /\ pc_gateway' = IF report = "uncaught" THEN "crashed" ELSE "receive"
                   /\ sensor_data' = <<>>
                   /\ frame_posts' = 0
                   /\ api_result' = ""
                   /\ dropped' = dropped + 1
                   /\ UNCHANGED <<post_count, records, failed_posts>>
          ELSE \E result \in PostResults :
                  LET f == Forward(d.data[1], result) IN
                  /\ printed' = f.printed
                  /\ pc_gateway' = IF f.printed = "uncaught" THEN "crashed" ELSE "receive"
                  /\ sensor_data' = d.data
                  /\ frame_posts' = f.posts
                  /\ api_result' = result
                  /\ failed_posts' = failed_posts + IF result \in TransportFailures THEN 1 ELSE 0
                  /\ post_count' = post_count + f.posts
                  /\ records' = records + 1
                  /\ UNCHANGED dropped
    /\ msg' = uart_rx
    /\ msg_origin' = rx_origin
    /\ carry' = UnterminatedTail(carry \o uart_rx)
    /\ valid_read' = valid_read + ValidLineCount(carry \o uart_rx)
    /\ uart_rx' = <<>>
    /\ rx_origin' = <<>>
    /\ UNCHANGED <<setup_vars, wifi_vars, rx_pending, delivered>>

\* The frames the radio module builds from the payloads of the sender's cycles,
\* each with the sample it was framed from.
SenderFrames ==
    { [line   |-> RcvFrame(h, FormatMessage(s.ambient_temp, s.humidity, s.surrounding_temp,
                                            s.VIS_mean, s.NIR_Green_ratio, s.whiteness, up)),
       origin |-> s] : s \in FrameSamples, up \in [1..6 -> BOOLEAN], h \in Headers }

\* A frame of the sender whose bytes are still arriving when the UART is read:
\* the places where the bytes that have arrived can end.
SplitFrame ==
    LET s == SenderSample(<<<<225, 10>>, <<550, 10>>>>, 13600, [R |-> 0, G |-> 5, B |-> 1, NIR |-> 4])
        h == CHOOSE x \in Headers : x.snr = <<"9">>
    IN  RcvFrame(h, FormatMessage(s.ambient_temp, s.humidity, s.surrounding_temp, s.VIS_mean,
                                  s.NIR_Green_ratio, s.whiteness, [i \in 1..6 |-> FALSE]))
SplitPoints == {Len(RCV_PREFIX), 20, Len(SplitFrame) - 1}

\* The radio module delivers a frame while send_command waits.  The drain
\* discards the bytes without looking at them (line 56), so one frame stands for
\* all that can arrive there.
RadioDuringSetup ==
    /\ pc_gateway = "settle"
    /\ rx_pending = <<>>
    /\ Len(rx_origin) < MaxSetupArrivals
    /\ \E f \in SenderFrames :
          /\ f.line = SplitFrame
          /\ uart_rx' = uart_rx \o f.line \o CRLF
          /\ rx_origin' = Append(rx_origin, <<f.origin>>)
    /\ UNCHANGED <<pc_gateway, setup_vars, wifi_vars, rx_pending, delivered, read_vars>>

\* The radio module delivers a line that no sender framed.  Bytes that arrive
\* while connect_to_wifi runs wait in the UART like bytes that arrive before the
\* first poll of the receive loop, so these arrivals are taken in the receive loop.
RadioNoise ==
    /\ delivered < MaxDelivered
    /\ pc_gateway = "receive"
    /\ rx_pending = <<>>
    /\ \E line \in NoiseLines :
          /\ uart_rx' = uart_rx \o line \o CRLF
          /\ rx_origin' = Append(rx_origin, <<>>)
    /\ delivered' = delivered + 1
    /\ UNCHANGED <<pc_gateway, setup_vars, wifi_vars, rx_pending, read_vars>>

\* the radio module delivers the payload of one sender cycle
RadioFromSender ==
    /\ delivered < MaxDelivered
    /\ pc_gateway = "receive"
    /\ rx_pending = <<>>
    /\ \E f \in SenderFrames :
          /\ uart_rx' = uart_rx \o f.line \o CRLF
          /\ rx_origin' = Append(rx_origin, <<f.origin>>)
    /\ delivered' = delivered + 1
    /\ UNCHANGED <<pc_gateway, setup_vars, wifi_vars, rx_pending, read_vars>>

\* the radio module has delivered the beginning of a frame and not yet its rest
RadioPartial ==
    /\ delivered < MaxDelivered
    /\ pc_gateway = "receive"
    /\ rx_pending = <<>>
    /\ \E k \in SplitPoints :
          /\ uart_rx' = uart_rx \o SubSeq(SplitFrame, 1, k)
          /\ rx_pending' = SubSeq(SplitFrame, k + 1, Len(SplitFrame)) \o CRLF
    /\ delivered' = delivered + 1
    /\ UNCHANGED <<pc_gateway, setup_vars, wifi_vars, rx_origin, read_vars>>

\* the radio module delivers the rest of the frame
RadioRest ==
    /\ rx_pending # <<>>
    /\ pc_gateway = "receive"
    /\ uart_rx' = uart_rx \o rx_pending
    /\ rx_pending' = <<>>
    /\ rx_origin' = Append(rx_origin, <<>>)
    /\ UNCHANGED <<pc_gateway, setup_vars, wifi_vars, delivered, read_vars>>

GatewayNext ==
    \/ G_InitializeLora
    \/ G_Settle
    \/ G_ModuleReply
    \/ G_DrainRead
    \/ G_DrainEnd
    \/ G_ConnectToWifi
    \/ G_WifiWait
    \/ G_WifiCheck
    \/ WifiAssociates
    \/ G_Receive
    \/ RadioDuringSetup
    \/ RadioNoise
    \/ RadioFromSender
    \/ RadioPartial
    \/ RadioRest

vars == <<sender_vars, gateway_vars>>

Init == SenderInit /\ GatewayInit

\* compute_features on its own, for every reading of the four channels up to
\* MaxCount: sensor.get_data gives non-negative counts.
FeaturesInit ==
    /\ GatewayInit
    /\ pc_sender = "compute_features"
    /\ channels \in [R : 0..MaxCount, G : 0..MaxCount, B : 0..MaxCount, NIR : 0..MaxCount]
    /\ ambient_temp = None
    /\ humidity = None
    /\ Ambient_Temp = None
    /\ surrounding_temp = None
    /\ VIS_mean = None
    /\ NIR_Green_ratio = None
    /\ whiteness = None
    /\ surface = ""
    /\ message = <<>>
    /\ uart_tx = <<>>
    /\ tx_count = 0
    /\ cycles = 0
    /\ setup_index = 1
    /\ s_uart_rx = <<>>
    /\ s_reply = <<>>
    /\ setup_rejected = FALSE

\* compute_features, lines 126-144, for the reading held in channels
F_ComputeFeatures ==
    /\ pc_sender = "compute_features"
    /\ VIS_mean' = compute_features(channels).VIS_mean
    /\ NIR_Green_ratio' = compute_features(channels).NIR_Green_ratio
    /\ whiteness' = compute_features(channels).whiteness
    /\ pc_sender' = "classify"
    /\ UNCHANGED <<ambient_temp, humidity, Ambient_Temp, surrounding_temp, channels,
                   surface, message, uart_tx, tx_count, cycles, setup_index, s_uart_rx,
                   s_reply, setup_rejected>>

SpecFeatures == FeaturesInit /\ [][F_ComputeFeatures /\ UNCHANGED gateway_vars]_vars

SpecSender == Init /\ [][SenderNext /\ UNCHANGED gateway_vars]_vars

SpecGateway == Init /\ [][GatewayNext /\ UNCHANGED sender_vars]_vars

(***************************************************************************)
(* Properties.                                                             *)
(***************************************************************************)
Absent(x) == x = None

\* the step is an iteration of the receive loop that read bytes
ReceiveStep == pc_gateway = "receive" /\ uart_rx # <<>> /\ uart_rx' = <<>>

\* |a - b| <= 1 / inv for fractions a and b
Within(a, b, inv) ==
    LET diff == a[1] * b[2] - b[1] * a[2]
        mag  == IF diff < 0 THEN -diff ELSE diff
    IN  mag * inv <= a[2] * b[2]

\* C1: a sensor acquisition failure (the DHT22 read raising, an MLX90614 read
\* returning None) never aborts the sender loop: with airTemp, humidity or
\* surfaceTemp absent the sender does not end, it goes on to its sleep step.
C1_SensorFailureNeverAborts ==
    (Absent(ambient_temp) \/ Absent(humidity) \/ Absent(surrounding_temp))
        => pc_sender # "crashed"

\* C2: numeric formatting (the live-data report and the six payload fields) is
\* only executed with airTemp, humidity and surfaceTemp all present.
C2_NoAbsentValueFormatted ==
    pc_sender \in {"report", "frame"}
        => ~Absent(ambient_temp) /\ ~Absent(humidity) /\ ~Absent(surrounding_temp)

\* C3: once a cycle has classified, the surface is IceDetected exactly when
\* surfaceTemp <= 0, whiteness > 1.2 and nirGreenRatio < 0.8; PossibleBlackIce
\* exactly when surfaceTemp <= 0 and nirGreenRatio < 0.8 but not whiteness > 1.2;
\* Normal otherwise; and an absent surfaceTemp gives Normal.
C3_ClassificationPriority ==
    (\/ pc_sender \in {"report", "frame", "send", "sleep", "crashed"}
     \/ (pc_sender \in {"settle", "drain"} /\ setup_index > Len(SenderSetup))) =>
        LET cold   == ~Absent(surrounding_temp) /\ surrounding_temp[1] <= 0
            white  == 10 * whiteness[1] > 12 * whiteness[2]
            lowNir == 10 * NIR_Green_ratio[1] < 8 * NIR_Green_ratio[2]
        IN  /\ surface = "ICE DETECTED" <=> (cold /\ white /\ lowNir)
            /\ surface = "POSSIBLE BLACK ICE" <=> (cold /\ ~white /\ lowNir)
            /\ surface = "NORMAL" <=> ~(cold /\ lowNir)
            /\ Absent(surrounding_temp) => surface = "NORMAL"

\* a freezing surface with whiteness exactly 1.2 and a low NIR/green ratio has
\* been classified
C3_Witness ==
    /\ pc_sender = "report"
    /\ ~Absent(surrounding_temp) /\ surrounding_temp[1] <= 0
    /\ whiteness = <<6, 5>>
    /\ surface = "POSSIBLE BLACK ICE"

\* C4: a readable line with the receive-frame prefix whose payload (the tokens
\* between index 2 and the third-from-last) is not exactly 6 tokens is dropped as
\* a malformed packet: no record, no POST, and the loop goes on.
C4_WrongFieldCountDropped ==
    (/\ msg # <<>>
     /\ ~DecodeRaises(msg)
     /\ HasRcvPrefix(Strip(msg))
     /\ CommaCount(Strip(msg)) # 9)
        => /\ printed = "Malformed LoRa packet"
           /\ sensor_data = <<>>
           /\ frame_posts = 0
           /\ pc_gateway = "receive"

\* a frame with more than six payload tokens has been dropped as malformed
C4_Witness ==
    /\ HasRcvPrefix(msg)
    /\ ~DecodeRaises(msg)
    /\ CommaCount(Strip(msg)) > 9
    /\ printed = "Malformed LoRa packet"
    /\ frame_posts = 0

C6_NoPrefixIgnored ==
    (msg # <<>> /\ ~HasRcvPrefix(msg))
        => sensor_data = <<>> /\ frame_posts = 0

\* C6 amended: bytes that, with leading and trailing whitespace stripped, do not
\* begin with "+RCV=" never become a record and never cause a POST.
C6_NoPrefixAfterStripIgnored ==
    (msg # <<>> /\ ~HasRcvPrefix(Strip(msg)))
        => sensor_data = <<>> /\ frame_posts = 0

\* a line without the prefix, followed in the same read by a well-formed frame,
\* has been ignored
C6_Witness ==
    /\ msg # <<>>
    /\ ~HasRcvPrefix(Strip(msg))
    /\ ContainsText(msg, RCV_PREFIX)
    /\ printed = ""
    /\ frame_posts = 0

\* C7: the receive loop never ends on a frame, and after frames were dropped a
\* well-formed frame is still decoded and forwarded.
C7_ReceiveLoopSurvives ==
    [][ pc_gateway = "receive" =>
          /\ pc_gateway' = "receive"
          /\ (dropped > 0 /\ ReceiveStep /\ WellFormedFrame(uart_rx))
                => records' = records + 1 /\ post_count' = post_count + 1 ]_vars

\* a read was dropped and the frame read after it was forwarded
C7_Witness ==
    /\ dropped >= 1
    /\ frame_posts = 1
    /\ sensor_data # <<>>
    /\ pc_gateway = "receive"

\* C8: a transport failure of the POST is reported by the forwarder itself, does
\* not reach the handler of the receive loop, and the loop goes on: the next
\* well-formed frame is posted.
C8_TransportFailureContained ==
    [][ /\ (ReceiveStep /\ api_result' \in TransportFailures)
            => printed' = "ERROR sending to API" /\ pc_gateway' = "receive"
        /\ (failed_posts > 0 /\ ReceiveStep /\ WellFormedFrame(uart_rx))
            => post_count' = post_count + 1 ]_vars

\* a POST failed in transport and a later POST was answered
C8_Witness ==
    /\ failed_posts >= 1
    /\ api_result \in StatusCodes
    /\ printed = "API Sent"

\* C9: one POST per record, whatever the outcome: the POSTs issued equal the
\* records built, and a read issues one POST if it built a record, else none.
C9_OnePostPerRecord ==
    /\ post_count = records
    /\ frame_posts = Len(sensor_data)

\* a POST failed in transport and a second record has been posted since
C9_Witness ==
    /\ failed_posts >= 1
    /\ records >= 2
    /\ api_result \in StatusCodes

\* C10: a decoded record carries DeviceID 16 and payload tokens 1..6 as AirTemp,
\* Humidity, SurfaceTemp, VIS_Mean, NIR_Green_Ratio, WhitenessIndex; for a frame
\* the sender framed these are the sender's ambient_temp, humidity,
\* surrounding_temp, VIS_mean, NIR_Green_ratio and whiteness, as rounded.
C10_RecordFieldOrder ==
    sensor_data # <<>> =>
        LET r == sensor_data[1] IN
        /\ r.DeviceID = 16
        /\ <<r.AirTemp>> = ParseFloat(Token(msg, 3))
        /\ <<r.Humidity>> = ParseFloat(Token(msg, 4))
        /\ <<r.SurfaceTemp>> = ParseFloat(Token(msg, 5))
        /\ <<r.VIS_Mean>> = ParseFloat(Token(msg, 6))
        /\ <<r.NIR_Green_Ratio>> = ParseFloat(Token(msg, 7))
        /\ <<r.WhitenessIndex>> = ParseFloat(Token(msg, 8))
        /\ (Len(msg_origin) = 1 /\ msg_origin[1] # <<>>) =>
              LET o == msg_origin[1][1] IN
              /\ Within(r.AirTemp, o.ambient_temp, 20)
              /\ Within(r.Humidity, o.humidity, 20)
              /\ Within(r.SurfaceTemp, o.surrounding_temp, 20)
              /\ Within(r.VIS_Mean, o.VIS_mean, 20)
              /\ Within(r.NIR_Green_Ratio, o.NIR_Green_ratio, 200)
              /\ Within(r.WhitenessIndex, o.whiteness, 200)

\* a frame the sender framed has been decoded and posted
C10_Witness ==
    /\ sensor_data # <<>>
    /\ Len(msg_origin) = 1
    /\ msg_origin[1] # <<>>
    /\ frame_posts = 1

\* the characters of a payload: each is one byte in ASCII
PayloadChars == {"0", "1", "2", "3", "4", "5", "6", "7", "8", "9", "-", ".", ","}

\* the positions of the commas of a text, in a set
Commas(s) == {i \in 1..Len(s) : s[i] = ","}

\* the least element of a non-empty set of numbers
Least(S) == CHOOSE x \in S : \A y \in S : x <= y

\* a decimal number as str() writes it: digits, no leading zero
IsDecimal(s) ==
    /\ Len(s) >= 1
    /\ \A i \in 1..Len(s) : s[i] \in {"0", "1", "2", "3", "4", "5", "6", "7", "8", "9"}
    /\ Len(s) > 1 => s[1] # "0"

\* line is AT+SEND=<addr>,<len>,<payload> CR LF with <len> the number of bytes
\* of <payload>
IsExactSendCommand(line, addr, payload) ==
    /\ Cardinality(Commas(line)) >= 2
    /\ LET c1   == Least(Commas(line))
           c2   == Least(Commas(line) \ {c1})
           head == SubSeq(line, 1, c1 - 1)
           len  == SubSeq(line, c1 + 1, c2 - 1)
           rest == SubSeq(line, c2 + 1, Len(line))
       IN  /\ head = <<"A", "T", "+", "S", "E", "N", "D", "=">> \o addr
           /\ IsDecimal(len)
           /\ rest = payload \o <<"\r", "\n">>
           /\ \A i \in 1..Len(payload) : payload[i] \in PayloadChars
           /\ DigitsToInt(len) = Len(payload)

\* C11: every transmit command the sender writes is AT+SEND=2,<len>,<payload>
\* followed by CR LF, where <payload> is the message of the cycle, made of
\* one-byte characters only, and <len> is the decimal number of its bytes.
C11_SendLengthExact ==
    [][ (pc_sender = "send" /\ tx_count' = tx_count + 1)
            => IsExactSendCommand(uart_tx', <<"2">>, message) ]_vars

\* a transmit command with a negative field has been written
C11_Witness ==
    /\ pc_sender = "settle"
    /\ tx_count = Len(SenderSetup) + 1
    /\ \E i \in 1..Len(message) : message[i] = "-"
    /\ Len(message) >= 10
    /\ uart_tx[9] = "2"

\* the bytes are one line and its line end, nothing before and nothing after
OneLine(b) ==
    /\ Len(b) >= 2
    /\ b[Len(b) - 1] = "\r" /\ b[Len(b)] = "\n"
    /\ \A i \in 1..(Len(b) - 2) : b[i] \notin {"\r", "\n"}

\* the read was one receive frame that the radio module built from the payload
\* of a sender cycle
ReadOneSenderFrame ==
    /\ OneLine(msg)
    /\ Len(msg_origin) = 1
    /\ msg_origin[1] # <<>>

\* C12: a payload that the framer built from six present values and that the
\* radio module delivered as one receive frame, whatever its rssi and snr, is
\* decoded into a record whose six values are, in order, the sender's air
\* temperature, humidity, surface temperature and visible mean within 0.05,
\* and its NIR/green ratio and whiteness within 0.005.
C12_RoundTrip ==
    ReadOneSenderFrame =>
        /\ sensor_data # <<>>
        /\ LET r == sensor_data[1]
               o == msg_origin[1][1]
           IN  /\ Within(r.AirTemp, o.ambient_temp, 20)
               /\ Within(r.Humidity, o.humidity, 20)
               /\ Within(r.SurfaceTemp, o.surrounding_temp, 20)
               /\ Within(r.VIS_Mean, o.VIS_mean, 20)
               /\ Within(r.NIR_Green_Ratio, o.NIR_Green_ratio, 200)
               /\ Within(r.WhitenessIndex, o.whiteness, 200)

\* a frame with rssi -120 and snr -3 has been decoded whose surface temperature
\* lay half way between two values of one decimal and whose NIR/green ratio was
\* rounded up
C12_Witness ==
    /\ ReadOneSenderFrame
    /\ sensor_data # <<>>
    /\ Token(msg, 9) = <<"-", "1", "2", "0">>
    /\ Token(msg, 10) = <<"-", "3">>
    /\ msg_origin[1][1].surrounding_temp = <<-115, 100>>
    /\ sensor_data[1].SurfaceTemp = <<-12, 10>>
    /\ msg_origin[1][1].NIR_Green_ratio = <<4, 6>>
    /\ sensor_data[1].NIR_Green_Ratio = <<67, 100>>

\* C13, for the sender: once the radio module has left a command of
\* initialize_lora without +OK (an error reply, or no reply before the drain
\* ended), the sender is still inside initialize_lora or has stopped; it never
\* reaches the first step of its monitoring loop.  The gateway's send_command
\* and initialize_lora are the same code with the answer discarded unread.
C13_RejectedSetupRefusesLoop ==
    setup_rejected => (setup_index <= Len(SenderSetup) \/ pc_sender = "stopped")

\* C14: the wait loop of connect_to_wifi makes at most 20 connection checks and
\* ends: the checks made and the tries left add up to 20, every pass of the loop
\* makes a check and either leaves the loop or uses up a try, and with no try
\* left the loop is left.  If the network is then still not attached the gateway
\* stops for good, after exactly 20 checks, having read no frame, built no record
\* and posted nothing.  The receive loop is entered only with the network
\* attached and the four commands of initialize_lora written and drained.
C14_AttachBoundedAndFatal ==
    [][ /\ wifi_checks' <= 20
        /\ pc_gateway' = "wifi_wait" => (wifi_checks' + max_wait' = 20 /\ max_wait' >= 0)
        /\ (pc_gateway = "wifi_wait" /\ wlan_connected' = wlan_connected)
              => /\ max_wait > 0 => wifi_checks' = wifi_checks + 1
                 /\ pc_gateway' = "wifi_wait" => max_wait' = max_wait - 1
                 /\ max_wait = 0 => pc_gateway' = "wifi_check"
        /\ (pc_gateway = "wifi_check" /\ ~wlan_connected /\ pc_gateway' # pc_gateway)
              => pc_gateway' = "stopped"
        /\ (pc_gateway # "stopped" /\ pc_gateway' = "stopped")
              => ~wlan_connected /\ wifi_checks = 20
        /\ pc_gateway = "stopped" => pc_gateway' = "stopped"
        /\ pc_gateway' = "stopped" => (msg' = <<>> /\ records' = 0 /\ post_count' = 0)
        /\ (pc_gateway # "receive" /\ pc_gateway' = "receive")
              => /\ wlan_connected
                 /\ gw_tx_count = 4
                 /\ gw_setup_index = 5
                 /\ pc_gateway \in {"connect_to_wifi", "wifi_check"} ]_vars

\* the attach has failed after the four commands of initialize_lora: the
\* gateway has stopped
C14_Witness ==
    /\ pc_gateway = "stopped"
    /\ ~wlan_connected
    /\ gw_tx_count = 4
    /\ records = 0

\* C15: for every reading with non-negative R, G, B and NIR the features are
\* computed with divisors that are at least 1: visMean is (R+G+B)/3,
\* nirGreenRatio is NIR/(G+1) and whiteness is (R+G+B)/(NIR+1), also when G = 0
\* or NIR = 0.
C15_NoDivisionByZero ==
    pc_sender = "classify" =>
        LET vis == channels.R + channels.G + channels.B IN
        /\ VIS_mean[2] >= 1 /\ NIR_Green_ratio[2] >= 1 /\ whiteness[2] >= 1
        /\ VIS_mean[1] * 3 = vis * VIS_mean[2]
        /\ NIR_Green_ratio[1] * (channels.G + 1) = channels.NIR * NIR_Green_ratio[2]
        /\ whiteness[1] * (channels.NIR + 1) = vis * whiteness[2]

\* the features of a reading with G = 0 and NIR = 0 have been computed
C15_Witness ==
    /\ pc_sender = "classify"
    /\ channels.G = 0 /\ channels.NIR = 0 /\ channels.R = MaxCount
    /\ NIR_Green_ratio = <<0, 1>>
    /\ whiteness = <<MaxCount + channels.B, 1>>

\* C16: whatever the UART held at each poll (one line, several lines, a line in
\* two parts), once every line read is complete the receive loop has built one
\* record and issued one POST for each line read that is a well-formed frame:
\* none was lost and none was merged with its neighbour.
C16_OneFramePerLine ==
    (pc_gateway = "receive" /\ carry = <<>>)
        => (records = valid_read /\ post_count = valid_read)

CycleOrder ==
    [read_dht         |-> {"read_mlx"},
     read_mlx         |-> {"compute_features"},
     compute_features |-> {"classify"},
     classify         |-> {"report"},
     report           |-> {"frame", "crashed"},
     frame            |-> {"send"},
     send             |-> {"settle"},
     settle           |-> {"drain"},
     drain            |-> {"sleep"},
     sleep            |-> {"read_dht"},
     crashed          |-> {}]

\* the sender is past initialize_lora
InLoop == setup_index > Len(SenderSetup)

\* C18: in the monitoring loop the steps follow each other in the order acquire
\* (DHT22, MLX90614, spectral reading), compute, classify, frame, transmit
\* (write, wait, drain), sleep; the transmit step writes one AT+SEND line for the
\* message framed in this cycle, from features computed from this cycle's
\* reading and after its classification; and the AT+SEND lines written are one
\* per completed cycle, plus one while the current cycle is past its transmit.
C18_CycleOrderOneSend ==
    [][ /\ (InLoop /\ pc_sender' # pc_sender) => pc_sender' \in CycleOrder[pc_sender]
        /\ InLoop' =>
              tx_count' = Len(SenderSetup) + cycles'
                          + (IF pc_sender' \in {"settle", "drain", "sleep"} THEN 1 ELSE 0)
        /\ (InLoop /\ tx_count' # tx_count) =>
              /\ pc_sender = "send"
              /\ SubSeq(uart_tx', 1, 8) = <<"A", "T", "+", "S", "E", "N", "D", "=">>
              /\ surface \in {"ICE DETECTED", "POSSIBLE BLACK ICE", "NORMAL"}
              /\ VIS_mean[1] * 3 = (channels.R + channels.G + channels.B) * VIS_mean[2]
              /\ NIR_Green_ratio[1] * (channels.G + 1) = channels.NIR * NIR_Green_ratio[2]
              /\ whiteness[1] * (channels.NIR + 1)
                    = (channels.R + channels.G + channels.B) * whiteness[2]
        /\ cycles' # cycles => (cycles' = cycles + 1 /\ pc_sender = "sleep") ]_vars

\* one cycle is complete and the next one has transmitted: two AT+SEND lines
\* after the four commands of initialize_lora
C18_Witness ==
    /\ cycles = 1
    /\ pc_sender = "sleep"
    /\ tx_count = Len(SenderSetup) + 2

\* the tokens of a line between index 2 and the third-from-last, both included
PayloadTokens(b) ==
    LET toks == Split(Strip(b), ",")
    IN  IF Len(toks) >= 5 THEN [i \in 1..(Len(toks) - 4) |-> toks[i + 2]] ELSE <<>>

\* what a line with the receive-frame prefix comes to, told from its payload
\* tokens alone: the record forwarded, if any, and the report made otherwise
OutcomeOf(toks) ==
    IF Len(toks) # 6
    THEN [data |-> <<>>, report |-> "Malformed LoRa packet"]
    ELSE IF \E i \in 1..6 : ParseFloat(toks[i]) = <<>>
    THEN [data |-> <<>>, report |-> "Error converting data to float"]
    ELSE [data   |-> << [DeviceID        |-> 16,
                         AirTemp         |-> ParseFloat(toks[1])[1],
                         Humidity        |-> ParseFloat(toks[2])[1],
                         SurfaceTemp     |-> ParseFloat(toks[3])[1],
                         VIS_Mean        |-> ParseFloat(toks[4])[1],
                         NIR_Green_Ratio |-> ParseFloat(toks[5])[1],
                         WhitenessIndex  |-> ParseFloat(toks[6])[1]] >>,
          report |-> ""]

\* C19: for readable bytes that begin, once stripped, with the receive-frame
\* prefix, whether a record is forwarded, which record, and what is reported
\* otherwise are a function of the tokens between index 2 and the
\* third-from-last alone: the source address, the declared length, rssi and snr
\* take no part, so frames that differ in these only come to the same, also
\* when the declared length is not the length of the payload.
C19_HeaderFieldsUnchecked ==
    (msg # <<>> /\ ~DecodeRaises(msg) /\ HasRcvPrefix(Strip(msg))) =>
        LET out == OutcomeOf(PayloadTokens(msg)) IN
        /\ sensor_data = out.data
        /\ frame_posts = Len(out.data)
        /\ out.data = <<>> => printed = out.report

\* the frame from address 7 with declared length 99 for a payload of 23 bytes,
\* rssi -120 and snr -3 has been forwarded
C19_Witness ==
    /\ msg # <<>>
    /\ Token(msg, 1) = <<"+", "R", "C", "V", "=", "7">>
    /\ Token(msg, 2) = <<"9", "9">>
    /\ Len(Join(PayloadTokens(msg), ",")) = 23
    /\ Token(msg, 9) = <<"-", "1", "2", "0">>
    /\ sensor_data # <<>>
    /\ frame_posts = 1

====
